---- MODULE Spec2Model ----
(***************************************************************************)
(* EVM transaction decode pipeline of yaci-postgrest:                      *)
(*   - the decode daemon        (scripts/decode-evm-daemon.ts)             *)
(*   - the priority decoder     (scripts/decode-evm-single.ts)             *)
(*   - the one-shot worker      (decode-evm.ts, second file concatenated   *)
(*                               in scripts/backfill-all.ts)               *)
(*   - the backfill script      (scripts/backfill-all.ts)                  *)
(* running against the PostgreSQL schema of the consolidated schema file   *)
(* (unnamed/part_006) with the columns added by unnamed/part_005.          *)
(*                                                                         *)
(* The store is modelled with READ COMMITTED sessions: a statement issued  *)
(* inside BEGIN..COMMIT goes to the session's uncommitted delta, a         *)
(* statement issued outside goes straight to the committed tables.         *)
(* Constraints of the schema (NOT NULL, PRIMARY KEY, UNIQUE, FOREIGN KEY,  *)
(* NUMERIC input, non-updatable views) raise errors as PostgreSQL does.    *)
(***************************************************************************)
EXTENDS Integers, Sequences, FiniteSets, TLC

\* ------------------------------------------------------------------ bounds
NumKeys == 2          \* source transactions carrying an EVM payload
MaxRequests == 1      \* decode-one requests accepted by the priority decoder
BATCH_SIZE == 2       \* LIMIT of the daemon's pending query

Keys == 1..NumKeys
NULL == "NULL"

\* ------------------------------------------------------- source envelopes
\* What the ingestion engine stored for a key: the raw envelope (decodable
\* or not, with the fields ethers' Transaction.from recovers), the gas used
\* of the ethereum_tx event, and the execution response.
NoResponse == [kind |-> "absent", gasUsed |-> NULL, vmError |-> FALSE, logs |-> <<>>]

TransferLog3 ==
  [index |-> 0, address |-> "0xt1",
   topics |-> <<"TRANSFER", "pad_0xf1", "pad_0xf2">>, data |-> "0x0a"]

EnvPlain ==
  [ok |-> TRUE, from |-> "0xAA", to |-> "0xB0", nonce |-> "7", data |-> "0x",
   evGas |-> "21000", height |-> "10", resp |-> NoResponse]

EnvBad ==
  [ok |-> FALSE, from |-> NULL, to |-> NULL, nonce |-> NULL, data |-> NULL,
   evGas |-> "21000", height |-> "11", resp |-> NoResponse]

EnvCall ==
  [ok |-> TRUE, from |-> "0xAA", to |-> "0xt1", nonce |-> "8",
   data |-> "0xa9059cbb_args", evGas |-> "50000", height |-> "12",
   resp |-> [kind |-> "ok", gasUsed |-> "48000", vmError |-> FALSE,
             logs |-> <<TransferLog3>>]]

EnvCreate ==
  [ok |-> TRUE, from |-> "0xAA", to |-> NULL, nonce |-> "5",
   data |-> "0x6080_init", evGas |-> "90000", height |-> "13",
   resp |-> [kind |-> "ok", gasUsed |-> "88000", vmError |-> FALSE,
             logs |-> <<>>]]

Envelopes == {EnvPlain, EnvBad, EnvCall, EnvCreate}

\* a deployment whose execution failed: the response carries a VM error
EnvCreateReverted ==
  [ok |-> TRUE, from |-> "0xAA", to |-> NULL, nonce |-> "6",
   data |-> "0x6080_init", evGas |-> "90000", height |-> "13",
   resp |-> [kind |-> "ok", gasUsed |-> "90000", vmError |-> TRUE,
             logs |-> <<>>]]

EnvelopesWithRevert == Envelopes \cup {EnvCreateReverted}

\* a transfer whose stored response data is not a decodable TxMsgData
EnvGarbled ==
  [ok |-> TRUE, from |-> "0xAA", to |-> "0xB0", nonce |-> "9", data |-> "0x",
   evGas |-> "23000", height |-> "12",
   resp |-> [kind |-> "garbled", gasUsed |-> NULL, vmError |-> FALSE,
             logs |-> <<>>]]

EnvelopesWithGarbled == Envelopes \cup {EnvGarbled}

\* a call of transfer(address,uint256) whose argument bytes are cut short
EnvCallCut ==
  [ok |-> TRUE, from |-> "0xAA", to |-> "0xt1", nonce |-> "4",
   data |-> "0xa9059cbb_cut", evGas |-> "30000", height |-> "12",
   resp |-> NoResponse]

EnvelopesWithCut == Envelopes \cup {EnvCallCut}

\* a call whose response carries an ERC-1155 TransferSingle log with data
\* that is no (uint256, uint256) pair
SingleLogBadData ==
  [index |-> 0, address |-> "0xt1",
   topics |-> <<"TRANSFER_SINGLE", "pad_0x01", "pad_0xf1", "pad_0xf2">>,
   data |-> "0x_bad"]

EnvSingleBad ==
  [ok |-> TRUE, from |-> "0xAA", to |-> "0xt1", nonce |-> "3", data |-> "0x",
   evGas |-> "40000", height |-> "12",
   resp |-> [kind |-> "ok", gasUsed |-> "39000", vmError |-> FALSE,
             logs |-> <<SingleLogBadData>>]]

EnvelopesWithBadPayload == Envelopes \cup {EnvSingleBad}

\* a call whose response carries two logs, the first without an explicit
\* index (index < 0 stands for the omitted field), the second with index 1
TransferLogNoIndex ==
  [index |-> -1, address |-> "0xt1",
   topics |-> <<"TRANSFER", "pad_0xf1", "pad_0xf2">>, data |-> "0x0a"]

TransferLogOne ==
  [index |-> 1, address |-> "0xt1",
   topics |-> <<"TRANSFER", "pad_0xf2", "pad_0xf1">>, data |-> "0x0a"]

EnvTwoLogs ==
  [ok |-> TRUE, from |-> "0xAA", to |-> "0xt1", nonce |-> "2",
   data |-> "0xa9059cbb_args", evGas |-> "60000", height |-> "12",
   resp |-> [kind |-> "ok", gasUsed |-> "58000", vmError |-> FALSE,
             logs |-> <<TransferLogNoIndex, TransferLogOne>>]]

EnvelopesWithTwoLogs == Envelopes \cup {EnvTwoLogs}

\* a contract creation whose init code begins with the four bytes of a
\* selector that the signature directory lists; its execution failed
EnvCreateListed ==
  [ok |-> TRUE, from |-> "0xAA", to |-> NULL, nonce |-> "1",
   data |-> "0xa9059cbb_init", evGas |-> "53000", height |-> "13",
   resp |-> [kind |-> "ok", gasUsed |-> "53000", vmError |-> TRUE,
             logs |-> <<>>]]

EnvelopesWithListed == Envelopes \cup {EnvCreateListed}

\* ------------------------------------------------------------- the schema
Tabs == {"tx", "logs", "transfers", "tokens", "contracts"}

EmptyTables == [t \in Tabs |-> {}]

\* primary keys of the five tables
PK(t, r) ==
  CASE t = "tx"        -> <<r.tx_id>>
    [] t = "logs"      -> <<r.tx_id, r.log_index>>
    [] t = "transfers" -> <<r.tx_id, r.log_index>>
    [] t = "tokens"    -> <<r.address>>
    [] t = "contracts" -> <<r.address>>

Has(rows, t, pk) == \E r \in rows : PK(t, r) = pk

RowOf(rows, t, pk) == CHOOSE r \in rows : PK(t, r) = pk

\* the tables a session sees: committed rows overlaid with its own delta
Overlay(c, w) ==
  [t \in Tabs |-> {r \in c[t] : ~Has(w[t], t, PK(t, r))} \cup w[t]]

\* column defaults of api.evm_transactions for columns an INSERT omits
TxDefaults ==
  [tx_id |-> 0, hash |-> NULL, from |-> NULL, to |-> NULL, nonce |-> NULL,
   gas_limit |-> NULL, gas_price |-> NULL, value |-> NULL, data |-> NULL,
   type |-> "0", gas_used |-> NULL, status |-> 1, function_name |-> NULL,
   function_signature |-> NULL, decoded_args |-> NULL,
   contract_address |-> NULL]

\* text -> NUMERIC input conversion of evm_token_transfers.value: a decimal
\* string is accepted, "0x" and "id:value" are not.
NumericInput(v) == v \in {"0", "10"}

\* first constraint a new row violates, "ok" when none
\* (NOT NULL before the index checks, FOREIGN KEY at the end of the statement)
NotNullViolation(t, r) ==
  CASE t = "tx"        -> \/ r.hash = NULL \/ r.from = NULL \/ r.nonce = NULL
                          \/ r.gas_limit = NULL \/ r.gas_price = NULL
                          \/ r.value = NULL
    [] t = "logs"      -> r.address = NULL
    [] t = "transfers" -> r.value = NULL
    [] t = "tokens"    -> r.type = NULL
    [] t = "contracts" -> FALSE

UniqueViolation(t, r, vis) ==
  /\ t = "tx"
  /\ \E x \in vis["tx"] : x.hash = r.hash /\ x.tx_id # r.tx_id

ForeignKeyViolation(t, r, vis) ==
  CASE t = "logs"      -> ~Has(vis["tx"], "tx", <<r.tx_id>>)
    [] t = "transfers" -> \/ ~Has(vis["tokens"], "tokens", <<r.token_address>>)
                          \/ ~Has(vis["logs"], "logs", <<r.tx_id, r.log_index>>)
    [] OTHER           -> FALSE


\* ---------------------------------------------------- statement execution
\* A session while it runs statements: c are the committed tables, w its
\* uncommitted delta, inTxn whether BEGIN was issued, failed whether the
\* transaction block is aborted (an error was raised inside it), out/err
\* the outcome of the last statement.
Session(c, w, inTxn) ==
  [c |-> c, w |-> w, inTxn |-> inTxn, failed |-> FALSE, out |-> "ok",
   err |-> "none"]

Raise(x, stmt, e) ==
  IF stmt.swallow
    THEN [x EXCEPT !.failed = x.inTxn]
    ELSE [x EXCEPT !.failed = x.inTxn, !.out = "error", !.err = e]

Put(x, t, r) ==
  IF x.inTxn
    THEN [x EXCEPT !.w[t] = {y \in @ : PK(t, y) # PK(t, r)} \cup {r}]
    ELSE [x EXCEPT !.c[t] = {y \in @ : PK(t, y) # PK(t, r)} \cup {r}]

OnConflictOverwrite(x, stmt) == Put(x, stmt.tab, stmt.row)

\* ON CONFLICT (..) DO NOTHING when the key is already visible: the statement
\* succeeds and inserts nothing
OnConflictDoNothing(x, stmt) == x

\* INSERT INTO t VALUES (row) ON CONFLICT (pk) <conflict>, where locks are
\* the uncommitted deltas of the other sessions.
\*   conflict = "nothing"          DO NOTHING
\*   conflict = "update"           DO UPDATE SET <every inserted column>
\*   conflict = "update_type"      DO UPDATE SET type = EXCLUDED.type
\*   conflict = "update_if_erc20"  DO UPDATE SET type = .. WHERE type = 'ERC20'
ExecInsert(x, stmt, locks) ==
  LET t   == stmt.tab
      r   == stmt.row
      pk  == PK(t, r)
      vis == Overlay(x.c, x.w)
      old == RowOf(vis[t], t, pk)
  IN
  IF x.failed
    THEN [x EXCEPT !.out = "error", !.err = "in_failed_transaction"]
  ELSE IF t = "transfers" /\ ~NumericInput(r.value)
    THEN Raise(x, stmt, "invalid_numeric")
  ELSE IF NotNullViolation(t, r) THEN Raise(x, stmt, "not_null")
  ELSE IF Has(vis[t], t, pk) /\ stmt.conflict = "nothing"
    THEN OnConflictDoNothing(x, stmt)
  ELSE IF Has(locks[t], t, pk) THEN [x EXCEPT !.out = "blocked"]
  ELSE IF Has(vis[t], t, pk)
    THEN CASE stmt.conflict = "update" -> Put(x, t, r)
           [] stmt.conflict = "update_type" ->
                Put(x, t, [old EXCEPT !.type = r.type])
           [] stmt.conflict = "update_if_erc20" ->
                IF old.type = "ERC20"
                  THEN Put(x, t, [old EXCEPT !.type = r.type]) ELSE x
  ELSE IF UniqueViolation(t, r, vis) THEN Raise(x, stmt, "unique")
  ELSE IF ForeignKeyViolation(t, r, vis) THEN Raise(x, stmt, "foreign_key")
  ELSE Put(x, t, r)

\* the statements of a list in order, stopping at the first one that
\* raises or has to wait
RECURSIVE ExecAll(_, _, _)
ExecAll(x, stmts, locks) ==
  IF stmts = <<>> \/ x.out # "ok" THEN x
  ELSE ExecAll(ExecInsert(x, Head(stmts), locks), Tail(stmts), locks)

CommitDeltaOnly(c, w, failed) ==
  IF failed THEN c ELSE [t \in Tabs |-> IF w[t] = {} THEN c[t] ELSE w[t]]

\* COMMIT: the delta becomes part of the committed tables; on an aborted
\* transaction block COMMIT rolls back.
Commit(c, w, failed) == IF failed THEN c ELSE Overlay(c, w)

Insert(t, r, conflict) ==
  [tab |-> t, row |-> r, conflict |-> conflict, swallow |-> FALSE]

\* ------------------------------------------------------------ pure helpers
\* keccak256 of the raw envelope of key k (distinct envelopes, distinct hashes)
HashNames == <<"keccak_1", "keccak_2", "keccak_3", "keccak_4">>
keccak256(k) == HashNames[k]

\* `decode_failed_${tx_id.slice(0, 16)}`
SentinelNames == <<"decode_failed_1", "decode_failed_2", "decode_failed_3",
                   "decode_failed_4">>
SentinelHash(k) == SentinelNames[k]

\* String.prototype.toLowerCase on the addresses of the model
toLowerCase(a) ==
  CASE a = "0xAA" -> "0xaa"
    [] a = "0xB0" -> "0xb0"
    [] a = "0xC5" -> "0xc5"
    [] a = "0xC6" -> "0xc6"
    [] a = "0xC0" -> "0xc0"
    [] OTHER      -> a

\* '0x' + topic.slice(26): the address in a 32-byte topic
TopicAddress(topic) ==
  CASE topic = "pad_0xf1" -> "0xf1"
    [] topic = "pad_0xf2" -> "0xf2"
    [] topic = "pad_0x01" -> "0x01"
    [] OTHER              -> topic

\* ethers getCreateAddress({from, nonce}): a function of sender and nonce
getCreateAddress(from, nonce) ==
  CASE from = "0xAA" /\ nonce = "5" -> "0xC5"
    [] from = "0xAA" /\ nonce = "6" -> "0xC6"
    [] OTHER                         -> "0xC0"

\* data.slice(0, 10) when data has at least 10 characters, NULL otherwise
Selector(data) ==
  CASE data = "0xa9059cbb_args" -> "0xa9059cbb"
    [] data = "0xa9059cbb_cut"  -> "0xa9059cbb"
    [] data = "0xa9059cbb_init" -> "0xa9059cbb"
    [] data = "0xdeadbeef_args" -> "0xdeadbeef"
    [] data = "0x6080_init"     -> "0x60806040"
    [] OTHER                    -> NULL

\* what 4byte.directory holds for a selector
Directory(selector) ==
  IF selector = "0xa9059cbb" THEN "transfer(address,uint256)" ELSE NULL

\* signature.split('(')[0]
FunctionName(signature) ==
  IF signature = "transfer(address,uint256)" THEN "transfer" ELSE signature

\* JSON of decodeFunctionCall(data, signature), NULL when parsing throws
decodeFunctionCall(data, signature) ==
  IF data = "0xa9059cbb_args" /\ signature = "transfer(address,uint256)"
    THEN "{arg0,arg1}" ELSE NULL


\* ------------------------------------------------------------------ state
VARIABLES
  src,     \* [Keys -> Envelopes]: what the ingestion engine stored
  db,      \* the committed tables
  d,       \* decode daemon (main loop and processBatch)
  p,       \* priority decoder (decodeSingleTransaction)
  o,       \* one-shot worker (processPendingTransactions)
  f,       \* backfill script
  lc,      \* the log last classified and the statements issued for it
  nt,      \* keys notified on the channel evm_decode_priority
  rc       \* the response data last decoded, the result and the record

vars == <<src, db, d, p, o, f, lc, nt, rc>>

\* api.evm_pending_decode: EVM transactions without an evm_transactions row
Pending(c) == {k \in Keys : ~Has(c["tx"], "tx", <<k>>)}

\* -------------------------------------------------------------- the daemon
NoDecode == [null |-> TRUE]

\* decodeTransaction of decode-evm-daemon.ts
DaemonDecodeTransaction(k, env) ==
  IF ~env.ok THEN NoDecode
  ELSE [TxDefaults EXCEPT
          !.tx_id = k, !.hash = keccak256(k), !.from = env.from,
          !.to = env.to, !.nonce = env.nonce, !.gas_limit = "gas_limit",
          !.gas_price = "gas_price", !.value = "value", !.data = env.data,
          !.type = "2", !.gas_used = env.evGas, !.status = 1]

\* decodeTxResponse of decode-evm-daemon.ts: NULL-like record when the
\* response cannot be decoded
NoResult == [null |-> TRUE]

LogIndex(log, pos) == IF log.index >= 0 THEN log.index ELSE pos

RECURSIVE DecodeLogs(_, _)
DecodeLogs(logs, pos) ==
  IF logs = <<>> THEN <<>>
  ELSE <<[log_index |-> LogIndex(Head(logs), pos),
          address   |-> toLowerCase(Head(logs).address),
          topics    |-> Head(logs).topics,
          data      |-> Head(logs).data]>> \o DecodeLogs(Tail(logs), pos + 1)

DaemonDecodeTxResponse(resp) ==
  IF resp.kind # "ok" THEN NoResult
  ELSE [logs |-> DecodeLogs(resp.logs, 0), gasUsed |-> resp.gasUsed,
        vmError |-> resp.vmError]

detectIgnoresTopicCount(log) ==
  IF log.topics # <<>> /\ log.topics[1] \in {"TRANSFER_SINGLE", "TRANSFER_BATCH"}
    THEN "ERC1155"
  ELSE IF log.topics # <<>> /\ log.topics[1] = "TRANSFER" THEN "ERC20"
  ELSE NULL

\* detectTokenType of decode-evm-daemon.ts
detectTokenType(log) ==
  IF log.topics # <<>> /\ log.topics[1] \in {"TRANSFER_SINGLE", "TRANSFER_BATCH"}
    THEN "ERC1155"
  ELSE IF log.topics # <<>> /\ log.topics[1] = "TRANSFER"
    THEN IF Len(log.topics) = 4 THEN "ERC721" ELSE "ERC20"
  ELSE NULL

TokenRow(address, type) ==
  [address |-> address, type |-> type, first_seen_tx |-> NULL,
   first_seen_height |-> NULL, is_verified |-> FALSE]

TransferRow(k, log, from, to, value) ==
  [tx_id |-> k, log_index |-> log.log_index, token_address |-> log.address,
   from_address |-> from, to_address |-> to, value |-> value]

\* AbiCoder.decode(['uint256','uint256'], data) as `${id}:${value}`
DecodeIdValue(data) == IF data = "0x_id_value" THEN "1:5" ELSE NULL

\* the statements processBatch issues for one decoded log
DaemonLogStatements(k, log) ==
  LET n    == Len(log.topics)
      type == detectTokenType(log)
      ins  == <<Insert("logs", [tx_id |-> k, log_index |-> log.log_index,
                                address |-> log.address, topics |-> log.topics,
                                data |-> log.data], "nothing")>>
      tok  ==
        IF type = "ERC20" /\ n >= 3 THEN
          << Insert("transfers",
                    TransferRow(k, log, TopicAddress(log.topics[2]),
                                TopicAddress(log.topics[3]), log.data),
                    "nothing"),
             Insert("tokens", TokenRow(log.address, "ERC20"), "nothing") >>
        ELSE IF type = "ERC721" /\ n >= 4 THEN
          << Insert("transfers",
                    TransferRow(k, log, TopicAddress(log.topics[2]),
                                TopicAddress(log.topics[3]), log.topics[4]),
                    "nothing"),
             Insert("tokens", TokenRow(log.address, "ERC721"),
                    "update_if_erc20") >>
        ELSE IF type = "ERC1155" /\ log.topics[1] = "TRANSFER_SINGLE" /\ n >= 4
          THEN
          (IF DecodeIdValue(log.data) = NULL THEN <<>>
           ELSE << [Insert("transfers",
                           TransferRow(k, log, TopicAddress(log.topics[3]),
                                       TopicAddress(log.topics[4]),
                                       DecodeIdValue(log.data)),
                           "nothing") EXCEPT !.swallow = TRUE] >>)
          \o << Insert("tokens", TokenRow(log.address, "ERC1155"),
                       "update_type") >>
        ELSE <<>>
      appr ==
        IF log.topics # <<>> /\ log.topics[1] = "APPROVAL" /\ n >= 3
          THEN << Insert("tokens", TokenRow(log.address, "ERC20"), "nothing") >>
          ELSE <<>>
  IN ins \o tok \o appr

RECURSIVE DaemonLogsStatements(_, _)
DaemonLogsStatements(k, logs) ==
  IF logs = <<>> THEN <<>>
  ELSE DaemonLogStatements(k, Head(logs)) \o DaemonLogsStatements(k, Tail(logs))

\* the sentinel INSERT (tx_id, hash, "from", status) VALUES ($1, $2, '', -1)
SentinelRow(k) ==
  [TxDefaults EXCEPT !.tx_id = k, !.hash = SentinelHash(k), !.from = "",
                     !.status = -1]

EnrichNeedsResult(dec, res) ==
  IF res = NoResult THEN [dec EXCEPT !.gas_used = NULL, !.status = 0]
  ELSE [dec EXCEPT !.gas_used = res.gasUsed,
                   !.status = IF res.vmError THEN 0 ELSE 1]

\* the decoded record after the response enrichment
DaemonEnrich(dec, res) ==
  IF res = NoResult THEN dec
  ELSE [dec EXCEPT !.gas_used = res.gasUsed,
                   !.status = IF res.vmError THEN 0 ELSE 1]

\* decoded.to === null && decoded.from && decoded.status === 1
IsDeployment(dec) == dec.to = NULL /\ dec.from # "" /\ dec.status = 1

ContractRow(dec, height) ==
  [address |-> toLowerCase(getCreateAddress(dec.from, dec.nonce)),
   creator |-> toLowerCase(dec.from), creation_tx |-> dec.tx_id,
   creation_height |-> height,
   bytecode_hash |-> IF dec.data \in {NULL, ""} THEN NULL ELSE "keccak_code"]

StampNothing(dec) == dec

\* the record after the contract-deployment step
DaemonStamp(dec) ==
  IF IsDeployment(dec)
    THEN [dec EXCEPT !.contract_address =
                       toLowerCase(getCreateAddress(dec.from, dec.nonce))]
    ELSE dec

ResolveGuessesName(dec, sig) ==
  [dec EXCEPT !.function_name = IF sig = NULL THEN Selector(dec.data)
                                ELSE FunctionName(sig)]

ResolveNeedsArguments(dec, sig) ==
  IF sig = NULL \/ decodeFunctionCall(dec.data, sig) = NULL THEN dec
  ELSE [dec EXCEPT !.function_signature = sig,
                   !.function_name = FunctionName(sig),
                   !.decoded_args = decodeFunctionCall(dec.data, sig)]

\* the record after the signature lookup answered sig (NULL: unknown)
DaemonResolve(dec, sig) ==
  IF sig = NULL THEN dec
  ELSE [dec EXCEPT !.function_signature = sig,
                   !.function_name = FunctionName(sig),
                   !.decoded_args = decodeFunctionCall(dec.data, sig)]

NeedsLookup(dec) == dec.to # NULL /\ Selector(dec.data) # NULL

\* data->'tx_response'->'data' / data->'txResponse'->>'data' of the raw
\* document of a key: the ingested document keeps the response under
\* txResponse (the key the parsing triggers read height and events from).
JsonResponseData(env, key) ==
  IF key = "txResponse" THEN env.resp ELSE NoResponse

\* the decoded response the daemon works with for a row
DaemonResponse(env) ==
  LET data == JsonResponseData(env, "tx_response")
  IN IF data.kind = "absent" THEN NoResult ELSE DaemonDecodeTxResponse(data)

\* statements of one row before the signature lookup
DaemonRowPrefix(k, env) ==
  LET dec == DaemonDecodeTransaction(k, env)
      res == DaemonResponse(env)
      enr == DaemonEnrich(dec, res)
  IN IF dec = NoDecode THEN << Insert("tx", SentinelRow(k), "nothing") >>
     ELSE (IF res = NoResult THEN <<>> ELSE DaemonLogsStatements(k, res.logs))
          \o (IF IsDeployment(enr)
                THEN << Insert("contracts", ContractRow(enr, env.height),
                               "update") >>
                ELSE <<>>)

\* the record processBatch inserts for a decodable row
DaemonRecord(k, env, sig) ==
  LET dec == DaemonDecodeTransaction(k, env)
  IN DaemonResolve(DaemonStamp(DaemonEnrich(dec, DaemonResponse(env))), sig)


\* fetch4ByteSignature: the answers a call can get. A cached selector is
\* answered from sigCache; otherwise the directory answers, or the request
\* fails (network error, non-OK status, no result) and the answer is NULL.
FetchAnswers(selector, cache) ==
  IF selector \in cache THEN {Directory(selector)}
  ELSE {Directory(selector), NULL}

\* sequences without repetition of n keys of a set
RECURSIVE Arrangements(_, _)
Arrangements(S, n) ==
  IF n = 0 \/ S = {} THEN {<<>>}
  ELSE UNION {{<<k>> \o rest : rest \in Arrangements(S \ {k}, n - 1)} : k \in S}

Min(a, b) == IF a < b THEN a ELSE b

Range(q) == {q[i] : i \in 1..Len(q)}

\* SELECT .. FROM api.evm_pending_decode LIMIT BATCH_SIZE (no ORDER BY)
SelectPending(c) ==
  Arrangements(Pending(c), Min(BATCH_SIZE, Cardinality(Pending(c))))

\* the delays of main between two calls of processBatch, in milliseconds
POLL_INTERVAL_MS == 5000

SteadyWait == POLL_INTERVAL_MS

SteadyWaitAgain == POLL_INTERVAL_MS

BackoffWait == POLL_INTERVAL_MS * 2

\* the connection a call holds: pool.connect() at its start, and
\* client.release() in its finally block
NoConnection == [held |-> 0, released |-> 0]

Acquire == [held |-> 1, released |-> 0]

ReleaseNothing(cx) == cx

Release(cx) == [held |-> cx.held - 1, released |-> cx.released + 1]

NoBegin == FALSE

\* BEGIN issued by processBatch before the row loop
DaemonBegin == TRUE

RollbackKeepsDelta(c, w) == Overlay(c, w)

\* ROLLBACK of the catch block: the delta is discarded
Rollback(c, w) == c

\* the timer of main fires and main calls processBatch: the pending query,
\* and BEGIN when it has rows. An empty result returns 0 and main sleeps
\* POLL_INTERVAL_MS.
DaemonPoll ==
  /\ d.pc \in {"call", "sleep", "backoff"}
  /\ IF Pending(db) = {}
       THEN d' = [d EXCEPT !.pc = "sleep", !.last = "empty", !.batch = <<>>,
                           !.err = "none", !.wait = SteadyWait,
                           !.cx = Release(Acquire)]
       ELSE \E b \in SelectPending(db) :
              d' = [d EXCEPT !.pc = "rows", !.batch = b, !.i = 1,
                             !.w = EmptyTables, !.failed = FALSE,
                             !.inTxn = DaemonBegin, !.last = "running",
                             !.err = "none", !.wait = 0, !.cx = Acquire]
  /\ UNCHANGED <<src, rc, lc, nt, db, p, o, f>>

\* one iteration of the row loop of processBatch; a statement that raises
\* takes the catch block: ROLLBACK, release, rethrow, and main sleeps
\* 2 * POLL_INTERVAL_MS
DaemonRow ==
  /\ d.pc = "rows"
  /\ LET k    == d.batch[d.i]
         env  == src[k]
         dec  == DaemonDecodeTransaction(k, env)
         x0   == [Session(db, d.w, d.inTxn) EXCEPT !.failed = d.failed]
         x1   == ExecAll(x0, DaemonRowPrefix(k, env), p.w)
         look == dec # NoDecode /\ x1.out = "ok" /\ NeedsLookup(dec)
         sel  == Selector(dec.data)
     IN \E sig \in (IF look THEN FetchAnswers(sel, d.cache) ELSE {NULL}) :
          LET x2 == IF dec = NoDecode THEN x1
                    ELSE ExecAll(x1, <<Insert("tx", DaemonRecord(k, env, sig),
                                              "nothing")>>, p.w)
          IN /\ x2.out # "blocked"
             /\ IF x2.out = "ok"
                  THEN /\ db' = x2.c
                       /\ d' = [d EXCEPT
                                  !.cache = IF sig # NULL THEN @ \cup {sel} ELSE @,
                                  !.w = x2.w, !.failed = x2.failed,
                                  !.i = @ + 1,
                                  !.pc = IF d.i = Len(d.batch) THEN "commit"
                                         ELSE "rows"]
                  ELSE /\ db' = Rollback(x2.c, x2.w)
                       /\ d' = [d EXCEPT
                                  !.cache = IF sig # NULL THEN @ \cup {sel} ELSE @,
                                  !.w = EmptyTables, !.failed = FALSE,
                                  !.inTxn = FALSE, !.err = x2.err,
                                  !.pc = "backoff", !.last = "failed",
                                  !.wait = BackoffWait, !.cx = Release(@)]
  /\ UNCHANGED <<src, rc, lc, nt, p, o, f>>

\* COMMIT, release, return the number of rows; main then sleeps
\* POLL_INTERVAL_MS
DaemonCommit ==
  /\ d.pc = "commit"
  /\ db' = Commit(db, d.w, d.failed)
  /\ d' = [d EXCEPT !.pc = "sleep", !.w = EmptyTables, !.inTxn = FALSE,
                     !.failed = FALSE, !.last = "committed",
                     !.wait = SteadyWait, !.cx = Release(@)]
  /\ UNCHANGED <<src, rc, lc, nt, p, o, f>>

\* a statement of the batch fails for a reason outside the data (lost
\* connection, statement timeout): the catch block runs as for any error.
\* When the connection is lost the ROLLBACK of the catch block raises as
\* well, the finally block releases the client, and the server rolls the
\* transaction back as it ends the session.
DaemonFault ==
  /\ d.pc \in {"rows", "commit"}
  /\ db' = Rollback(db, d.w)
  /\ d' = [d EXCEPT !.pc = "backoff", !.w = EmptyTables, !.failed = FALSE,
                     !.inTxn = FALSE, !.err = "connection", !.last = "failed",
                     !.wait = BackoffWait, !.cx = Release(@)]
  /\ UNCHANGED <<src, rc, lc, nt, p, o, f>>

\* SIGTERM or SIGINT reaches the daemon: main installs no handler, so the
\* process ends where it stands. The server ends the session when the
\* connection drops and rolls its open transaction back.
DaemonShutdown ==
  /\ d.pc # "stopped"
  /\ db' = Rollback(db, d.w)
  /\ d' = [d EXCEPT !.pc = "stopped", !.w = EmptyTables, !.inTxn = FALSE,
                     !.failed = FALSE,
                     !.last = IF d.pc \in {"rows", "commit"} THEN "killed"
                              ELSE @]
  /\ UNCHANGED <<src, rc, lc, nt, p, o, f>>

\* ---------------------------------------------------- the priority decoder
\* decodeTransaction of decode-evm-single.ts: the selector is stored as the
\* signature, the name comes from a table of four known selectors
KnownSignature(selector) ==
  IF selector = "0xa9059cbb" THEN "transfer(address,uint256)" ELSE NULL

SingleDecodeTransaction(k, env) ==
  IF ~env.ok THEN NoDecode
  ELSE [TxDefaults EXCEPT
          !.tx_id = k, !.hash = keccak256(k), !.from = env.from,
          !.to = env.to, !.nonce = env.nonce, !.gas_limit = "gas_limit",
          !.gas_price = "gas_price", !.value = "value", !.data = env.data,
          !.type = "2", !.gas_used = env.evGas, !.status = 1,
          !.function_signature = Selector(env.data),
          !.function_name = IF Selector(env.data) = NULL THEN NULL
                            ELSE KnownSignature(Selector(env.data))]

\* DELETE FROM api.evm_pending_decode WHERE tx_id = $1: the view joins four
\* tables and groups, so it is not updatable and the statement raises
ExecDeletePending(x, k) ==
  IF x.failed
    THEN [x EXCEPT !.out = "error", !.err = "in_failed_transaction"]
    ELSE [x EXCEPT !.failed = x.inTxn, !.out = "error",
                   !.err = "cannot_delete_from_view"]

AnyRow(c, k) == TRUE

\* SELECT .. FROM api.evm_pending_decode WHERE tx_id = $1 returns a row
PendingRow(c, k) == k \in Pending(c)

\* a request POST /decode {txId} arrives: the pending query for the key,
\* the lookup of an existing row, the decode
PrioRequest(k) ==
  /\ p.pc = "idle"
  /\ p.reqs < MaxRequests
  /\ LET dec == SingleDecodeTransaction(k, src[k])
     IN IF ~PendingRow(db, k)
          THEN p' = [p EXCEPT !.key = k, !.reqs = @ + 1, !.saw = "not_pending",
                       !.err = "none", !.cx = Release(Acquire),
                       !.res = IF Has(db["tx"], "tx", <<k>>)
                                 THEN "already_decoded" ELSE "not_found"]
        ELSE IF dec = NoDecode
          THEN p' = [p EXCEPT !.key = k, !.reqs = @ + 1, !.saw = "pending",
                              !.err = "none", !.res = "decode_failed",
                              !.cx = Release(Acquire)]
        ELSE p' = [p EXCEPT !.key = k, !.reqs = @ + 1, !.saw = "pending",
                            !.err = "none", !.res = "running",
                            !.pc = "insert", !.w = EmptyTables,
                            !.failed = FALSE, !.cx = Acquire]
  /\ UNCHANGED <<src, rc, lc, nt, db, d, o, f>>

\* BEGIN; INSERT INTO api.evm_transactions .. ON CONFLICT (tx_id) DO NOTHING
PrioInsert ==
  /\ p.pc = "insert"
  /\ LET k == p.key
         x == ExecInsert(Session(db, EmptyTables, TRUE),
                         Insert("tx", SingleDecodeTransaction(k, src[k]),
                                "nothing"), d.w)
     IN /\ x.out # "blocked"
        /\ p' = [p EXCEPT !.w = x.w, !.failed = x.failed, !.err = x.err,
                          !.pc = IF x.out = "ok" THEN "delete" ELSE "end"]
  /\ UNCHANGED <<src, rc, lc, nt, db, d, o, f>>

\* DELETE FROM api.evm_pending_decode, then COMMIT and the success reply,
\* or the catch block: ROLLBACK and the reply {success: false, message}
PrioEnd ==
  /\ p.pc \in {"delete", "end"}
  /\ LET x0 == [Session(db, p.w, TRUE) EXCEPT !.failed = p.failed]
         x  == IF p.pc = "delete" THEN ExecDeletePending(x0, p.key)
               ELSE [x0 EXCEPT !.out = "error", !.err = p.err]
     IN /\ db' = IF x.out = "ok" THEN Commit(db, x.w, x.failed)
                 ELSE Rollback(db, x.w)
        /\ p' = [p EXCEPT !.pc = "idle", !.w = EmptyTables, !.failed = FALSE,
                          !.err = x.err, !.cx = Release(@),
                          !.res = IF x.out = "ok" THEN "decoded" ELSE "error"]
  /\ UNCHANGED <<src, rc, lc, nt, d, o, f>>

\* the connection of decodeSingleTransaction is lost during its write: the
\* statement raises, the ROLLBACK of the catch block raises as well, the
\* finally block releases the client and the call rejects (HTTP 500); the
\* server rolls the transaction back as it ends the session
PrioFault ==
  /\ p.pc \in {"insert", "delete", "end"}
  /\ db' = Rollback(db, p.w)
  /\ p' = [p EXCEPT !.pc = "idle", !.w = EmptyTables, !.failed = FALSE,
                    !.err = "connection", !.cx = Release(@),
                    !.res = "thrown"]
  /\ UNCHANGED <<src, rc, lc, nt, d, o, f>>

\* ------------------------------------------------------ the trigger channel
\* api.get_transaction_detail performs api.maybe_priority_decode for the
\* requested key: pg_notify('evm_decode_priority', key) when the key is in
\* the pending view. No session of the decoders executes LISTEN, and the
\* priority decoder takes its keys from POST /decode only.
GetTransactionDetail(k) ==
  /\ nt' = IF k \in Pending(db) THEN nt \cup {k} ELSE nt
  /\ UNCHANGED <<src, rc, lc, db, d, p, o, f>>

\* ------------------------------------------------------ the one-shot worker
ONESHOT_BATCH_SIZE == 100

HeightOf(env) ==
  CASE env.height = "10" -> 10 [] env.height = "11" -> 11
    [] env.height = "12" -> 12 [] env.height = "13" -> 13 [] OTHER -> 0

\* the pending query of processPendingTransactions: ORDER BY height DESC
\* LIMIT limit
OneShotSelect(c, s, limit) ==
  {b \in Arrangements(Pending(c), Min(limit, Cardinality(Pending(c)))) :
     \A i \in 1..(Len(b) - 1) : HeightOf(s[b[i]]) >= HeightOf(s[b[i + 1]])}

OneShotDecodeAsSentinel(k, env) ==
  IF ~env.ok THEN NoDecode
  ELSE [DaemonDecodeTransaction(k, env) EXCEPT !.status = -1]

\* decodeTransaction of decode-evm.ts
OneShotDecodeTransaction(k, env) ==
  IF ~env.ok THEN NoDecode
  ELSE [TxDefaults EXCEPT
          !.tx_id = k, !.hash = keccak256(k), !.from = env.from,
          !.to = env.to, !.nonce = env.nonce, !.gas_limit = "gas_limit",
          !.gas_price = "gas_price", !.value = "value", !.data = env.data,
          !.type = "2", !.gas_used = env.evGas, !.status = 1]

\* decodeTxResponse of decode-evm.ts
OneShotDecodeTxResponse(resp) ==
  IF resp.kind # "ok" THEN NoResult
  ELSE [logs |-> DecodeLogs(resp.logs, 0), gasUsed |-> resp.gasUsed,
        vmError |-> resp.vmError]

OneShotResponse(env) ==
  LET data == JsonResponseData(env, "txResponse")
  IN IF data.kind = "absent" THEN NoResult ELSE OneShotDecodeTxResponse(data)

OneShotEnrich(tx, res) ==
  IF res = NoResult THEN tx
  ELSE [tx EXCEPT
          !.gas_used = IF res.gasUsed \in {NULL, "0"} THEN @ ELSE res.gasUsed,
          !.status = IF res.vmError THEN 0 ELSE @]

OneShotResolve(tx, sig) ==
  IF sig = NULL THEN tx
  ELSE [tx EXCEPT !.function_name = FunctionName(sig),
                  !.function_signature = sig]

\* lookupSignature: answers a call can get; every answer is cached
LookupAnswers(selector, cache) ==
  IF \E e \in cache : e[1] = selector
    THEN {e[2] : e \in {e \in cache : e[1] = selector}}
    ELSE {Directory(selector), NULL}

\* BigInt(data).toString(), NULL when BigInt throws
BigIntString(data) ==
  CASE data = "0x" -> "0" [] data = "0x0a" -> "10" [] OTHER -> NULL

\* parseTransferLog: the transfer of a log, NoResult when it is none
parseTransferLog(k, log) ==
  IF Len(log.topics) < 3 \/ log.topics[1] # "TRANSFER" THEN NoResult
  ELSE IF BigIntString(log.data) = NULL THEN NoResult
  ELSE TransferRow(k, log, toLowerCase(TopicAddress(log.topics[2])),
                   toLowerCase(TopicAddress(log.topics[3])),
                   BigIntString(log.data))

RECURSIVE OneShotLogsStatements(_, _, _)
OneShotLogsStatements(k, env, logs) ==
  IF logs = <<>> THEN <<>>
  ELSE LET log == Head(logs)
           tr  == parseTransferLog(k, log)
       IN << Insert("logs", [tx_id |-> k, log_index |-> log.log_index,
                             address |-> log.address, topics |-> log.topics,
                             data |-> log.data], "nothing") >>
          \o (IF tr = NoResult THEN <<>>
              ELSE << Insert("tokens",
                             [TokenRow(log.address, "ERC20") EXCEPT
                                !.first_seen_tx = k,
                                !.first_seen_height = env.height], "nothing"),
                      Insert("transfers", tr, "nothing") >>)
          \o OneShotLogsStatements(k, env, Tail(logs))

OneShotRecord(k, env, sig) ==
  OneShotResolve(OneShotEnrich(OneShotDecodeTransaction(k, env),
                               OneShotResponse(env)), sig)

OneShotStatements(k, env, sig) ==
  LET res == OneShotResponse(env)
  IN << Insert("tx", OneShotRecord(k, env, sig), "nothing") >>
     \o (IF res = NoResult THEN <<>>
         ELSE OneShotLogsStatements(k, env, res.logs))

\* tablewise union of the deltas of two sessions
Locks(w1, w2) == [t \in Tabs |-> w1[t] \cup w2[t]]

\* the do .. while of main after a call of processPendingTransactions that
\* returned decoded: another call when a whole batch was decoded
AfterBatch(decoded, limit) == IF decoded = limit THEN "query" ELSE "done"

\* the worker is started, or main calls processPendingTransactions again:
\* the pending query; without pending rows the call returns 0
OneShotQuery(limit) ==
  /\ o.pc \in {"idle", "query"}
  /\ IF Pending(db) = {}
       THEN o' = [o EXCEPT !.pc = AfterBatch(0, limit), !.decoded = 0]
       ELSE \E b \in OneShotSelect(db, src, limit) :
              o' = [o EXCEPT !.pc = "rows", !.batch = b, !.i = 1,
                             !.decoded = 0]
  /\ UNCHANGED <<src, rc, lc, nt, db, d, p, f>>

\* one iteration of the row loop: decode, look the signature up, and one
\* transaction BEGIN .. COMMIT (ROLLBACK when a statement raises)
OneShotRow(limit) ==
  /\ o.pc = "rows"
  /\ LET k   == o.batch[o.i]
         env == src[k]
         tx  == OneShotDecodeTransaction(k, env)
         sel == IF tx = NoDecode THEN NULL ELSE Selector(tx.data)
         nxt(decoded) == IF o.i = Len(o.batch) THEN AfterBatch(decoded, limit)
                         ELSE "rows"
     IN IF tx = NoDecode
          THEN /\ o' = [o EXCEPT !.i = @ + 1, !.pc = nxt(o.decoded),
                                 !.last = "skipped"]
               /\ db' = db
          ELSE \E sig \in (IF sel = NULL THEN {NULL}
                            ELSE LookupAnswers(sel, o.cache)) :
                 LET x == ExecAll(Session(db, EmptyTables, TRUE),
                                  OneShotStatements(k, env, sig),
                                  Locks(d.w, p.w))
                 IN /\ x.out # "blocked"
                    /\ db' = IF x.out = "ok" THEN Commit(x.c, x.w, x.failed)
                             ELSE Rollback(x.c, x.w)
                    /\ o' = [o EXCEPT
                               !.i = @ + 1,
                               !.decoded = IF x.out = "ok" THEN @ + 1 ELSE @,
                               !.pc = nxt(IF x.out = "ok" THEN o.decoded + 1
                                          ELSE o.decoded),
                               !.cache = IF sel = NULL THEN @
                                         ELSE @ \cup {<<sel, sig>>},
                               !.last = IF x.out = "ok" THEN "committed"
                                        ELSE "rolled_back"]
  /\ UNCHANGED <<src, rc, lc, nt, d, p, f>>


\* ------------------------------------------------------- the log classifier
\* The statements the two decoders issue for one log of a response, taken
\* on their own: the log as the response codec hands it over, the statements
\* of the log loop, and the effect of the api.evm_tokens statements among
\* them on the registry.
TokenAddresses == {"0xt1", "0xt2"}

LogKinds == {"transfer3", "transfer4", "single", "batch", "approval"}

LogOf(kind, address) ==
  CASE kind = "transfer3" ->
         [index |-> 0, address |-> address,
          topics |-> <<"TRANSFER", "pad_0xf1", "pad_0xf2">>, data |-> "0x0a"]
    [] kind = "transfer4" ->
         [index |-> 0, address |-> address,
          topics |-> <<"TRANSFER", "pad_0xf1", "pad_0xf2", "0x_token7">>,
          data |-> "0x"]
    [] kind = "single" ->
         [index |-> 0, address |-> address,
          topics |-> <<"TRANSFER_SINGLE", "pad_0x01", "pad_0xf1", "pad_0xf2">>,
          data |-> "0x_id_value"]
    [] kind = "batch" ->
         [index |-> 0, address |-> address,
          topics |-> <<"TRANSFER_BATCH", "pad_0x01", "pad_0xf1", "pad_0xf2">>,
          data |-> "0x_ids_values"]
    [] kind = "approval" ->
         [index |-> 0, address |-> address,
          topics |-> <<"APPROVAL", "pad_0xf1", "pad_0xf2">>, data |-> "0x0a"]

NoLog == [log_index |-> -1, address |-> NULL, topics |-> <<>>, data |-> NULL]

IsTokenStatement(st) == st.tab = "tokens"

\* the api.evm_tokens statements of a list, run one by one on the pool
TokenWrites(c, stmts) ==
  ExecAll(Session(c, EmptyTables, FALSE), SelectSeq(stmts, IsTokenStatement),
          EmptyTables).c

\* the log loop of processBatch for one log of the transaction of key k
ClassifyDaemon(k, kind, address) ==
  /\ LET log   == DecodeLogs(<<LogOf(kind, address)>>, 0)[1]
         stmts == DaemonLogStatements(k, log)
     IN /\ lc' = [by |-> "daemon", key |-> k, log |-> log, stmts |-> stmts]
        /\ db' = TokenWrites(db, stmts)
  /\ UNCHANGED <<src, rc, nt, d, p, o, f>>

\* the log loop of processPendingTransactions for one log
ClassifyOneShot(k, kind, address) ==
  /\ LET log   == DecodeLogs(<<LogOf(kind, address)>>, 0)[1]
         stmts == OneShotLogsStatements(k, src[k], <<log>>)
     IN /\ lc' = [by |-> "oneshot", key |-> k, log |-> log, stmts |-> stmts]
        /\ db' = TokenWrites(db, stmts)
  /\ UNCHANGED <<src, rc, nt, d, p, o, f>>

\* ------------------------------------------------------ the response codec
\* decodeTxResponse taken on its own, on response data of any content: a
\* TxMsgData with zero or more nested responses, each a type URL and the
\* bytes of a message, or bytes that are no TxMsgData at all.
EvmTypeUrl == "/cosmos.evm.vm.v1.MsgEthereumTxResponse"

OtherTypeUrl == "/cosmos.bank.v1beta1.MsgSendResponse"

\* a nested response of the EVM type with one log, and a nested response of
\* another type, whose message has no fields and encodes to no bytes
EvmNested == [typeUrl |-> EvmTypeUrl, value |-> "evm_bytes"]

OtherNested == [typeUrl |-> OtherTypeUrl, value |-> "no_bytes"]

MaxNested == 2

NestedSeqs ==
  UNION {[1..n -> {EvmNested, OtherNested}] : n \in 0..MaxNested}

GarbledData == [kind |-> "garbled", msgResponses |-> <<>>]

ResponseDatas ==
  {GarbledData} \cup {[kind |-> "ok", msgResponses |-> q] : q \in NestedSeqs}

\* MsgEthereumTxResponse.decode(value) and the mapping of its fields: the
\* bytes of an EVM response give its logs, gas used and VM error; no bytes
\* decode to a message of defaults (no logs, gasUsed 0, no vmError)
DecodeEvmResponse(value) ==
  IF value = "evm_bytes"
    THEN [logs |-> DecodeLogs(<<TransferLog3>>, 0), gasUsed |-> "48000",
          vmError |-> FALSE]
    ELSE [logs |-> <<>>, gasUsed |-> "0", vmError |-> FALSE]

\* decodeTxResponse of decode-evm-daemon.ts: msgResponses[0] is decoded
\* whatever its type; without a first element the access throws and the
\* catch returns null
DaemonDecodeResponseData(data) ==
  IF data.kind # "ok" \/ data.msgResponses = <<>> THEN NoResult
  ELSE DecodeEvmResponse(data.msgResponses[1].value)

\* decodeTxResponse of backfill-all.ts: null unless msgResponses[0] has
\* the EVM type URL
OneShotDecodeResponseData(data) ==
  IF data.kind # "ok" \/ data.msgResponses = <<>> THEN NoResult
  ELSE IF data.msgResponses[1].typeUrl # EvmTypeUrl THEN NoResult
  ELSE DecodeEvmResponse(data.msgResponses[1].value)

\* the daemon's codec applied to response data, and the record the
\* enrichment makes of the decoded transaction of key k
CodecDaemon(k, data) ==
  /\ src[k].ok
  /\ LET res == DaemonDecodeResponseData(data)
     IN rc' = [by |-> "daemon", key |-> k, input |-> data, result |-> res,
               rec |-> DaemonEnrich(DaemonDecodeTransaction(k, src[k]), res)]
  /\ UNCHANGED <<src, lc, nt, db, d, p, o, f>>

\* the same for the one-shot worker
CodecOneShot(k, data) ==
  /\ src[k].ok
  /\ LET res == OneShotDecodeResponseData(data)
     IN rc' = [by |-> "oneshot", key |-> k, input |-> data, result |-> res,
               rec |-> OneShotEnrich(OneShotDecodeTransaction(k, src[k]),
                                     res)]
  /\ UNCHANGED <<src, lc, nt, db, d, p, o, f>>

\* ------------------------------------------------------ the backfill script
\* DELETE FROM api.evm_transactions, with the ON DELETE CASCADE of evm_logs
\* and of evm_token_transfers
DeleteAllTransactions(c) ==
  [c EXCEPT !["tx"] = {}, !["logs"] = {}, !["transfers"] = {}]

\* the deployment rows backfillContracts selects, ORDER BY height ASC
Deployments(c, s) ==
  LET rows == {r \in c["tx"] : r.to = NULL /\ r.status = 1
                                /\ r.from \notin {NULL, ""}}
      ks   == {r.tx_id : r \in rows}
  IN {b \in Arrangements(ks, Cardinality(ks)) :
        \A i \in 1..(Len(b) - 1) : HeightOf(s[b[i]]) <= HeightOf(s[b[i + 1]])}

\* UPDATE api.evm_transactions SET contract_address = $1 WHERE tx_id = $2
UpdateContractAddress(c, k, address) ==
  [c EXCEPT !["tx"] = {IF r.tx_id = k THEN [r EXCEPT !.contract_address = address]
                       ELSE r : r \in @}]

\* main of backfill-all.ts is started with one of its flag combinations
\* with --evm-only or no flag: backfillEvmDecoding
BackfillEvmDecoding(mode) ==
  /\ f.pc = "idle"
  /\ mode \in {"all", "evm-only"}
  /\ db' = DeleteAllTransactions(db)
  /\ f' = [f EXCEPT !.mode = mode,
                     !.pc = IF mode = "evm-only" THEN "done" ELSE "contracts"]
  /\ UNCHANGED <<src, rc, lc, nt, d, p, o>>

\* with --contracts-only or after backfillEvmDecoding: backfillContracts
BackfillContractsQuery ==
  /\ f.pc = "contracts" \/ f.pc = "idle"
  /\ \E b \in Deployments(db, src) :
       f' = [f EXCEPT !.mode = IF f.pc = "idle" THEN "contracts-only" ELSE @,
                      !.rows = [i \in 1..Len(b) |->
                                 RowOf(db["tx"], "tx", <<b[i]>>)],
                      !.i = 1,
                      !.pc = IF b = <<>> THEN "done" ELSE "rows"]
  /\ UNCHANGED <<src, rc, lc, nt, db, d, p, o>>

\* one iteration of the loop of backfillContracts; each statement runs on
\* the pool, outside any transaction
BackfillContractRow ==
  /\ f.pc = "rows"
  /\ LET r == f.rows[f.i]
         x == ExecInsert(Session(db, EmptyTables, FALSE),
                         Insert("contracts",
                                ContractRow(r, src[r.tx_id].height), "nothing"),
                         Locks(d.w, p.w))
     IN /\ x.out # "blocked"
        /\ db' = IF x.out = "ok"
                   THEN UpdateContractAddress(x.c, r.tx_id,
                          toLowerCase(getCreateAddress(r.from, r.nonce)))
                   ELSE x.c
        /\ f' = [f EXCEPT !.i = @ + 1,
                          !.pc = IF f.i = Len(f.rows) THEN "done" ELSE "rows"]
  /\ UNCHANGED <<src, rc, lc, nt, d, p, o>>

\* ------------------------------------------------------- the specification
InitFrom(envelopes) ==
  /\ src \in [Keys -> envelopes]
  /\ db = EmptyTables
  /\ d = [pc |-> "call", batch |-> <<>>, i |-> 1, w |-> EmptyTables,
          inTxn |-> FALSE, failed |-> FALSE, err |-> "none", cache |-> {},
          last |-> "none", wait |-> 0, cx |-> NoConnection]
  /\ p = [pc |-> "idle", key |-> 1, w |-> EmptyTables, failed |-> FALSE,
          err |-> "none", res |-> "none", saw |-> "none", reqs |-> 0,
          cx |-> NoConnection]
  /\ o = [pc |-> "idle", batch |-> <<>>, i |-> 1, decoded |-> 0,
          cache |-> {}, last |-> "none"]
  /\ f = [pc |-> "idle", mode |-> "all", rows |-> <<>>, i |-> 1]
  /\ lc = [by |-> "none", key |-> 1, log |-> NoLog, stmts |-> <<>>]
  /\ nt = {}
  /\ rc = [by |-> "none", key |-> 1, input |-> GarbledData,
           result |-> NoResult, rec |-> NoDecode]

Init == InitFrom(Envelopes)

Daemon == DaemonPoll \/ DaemonRow \/ DaemonCommit

Priority == (\E k \in Keys : PrioRequest(k)) \/ PrioInsert \/ PrioEnd

OneShot ==
  OneShotQuery(ONESHOT_BATCH_SIZE) \/ OneShotRow(ONESHOT_BATCH_SIZE)

Backfill ==
  \/ \E mode \in {"all", "evm-only"} : BackfillEvmDecoding(mode)
  \/ BackfillContractsQuery \/ BackfillContractRow

\* every process of the subsystem
Next == Daemon \/ DaemonFault \/ Priority \/ OneShot \/ Backfill

Spec == Init /\ [][Next]_vars

\* the daemon alone
NextDaemon == Daemon \/ DaemonFault

SpecDaemon == Init /\ [][NextDaemon]_vars

\* the daemon alone, with reverted deployments among the transactions
SpecDaemonReverted == InitFrom(EnvelopesWithRevert) /\ [][NextDaemon]_vars

\* the daemon and the priority decoder
NextPriority == Daemon \/ Priority

SpecPriority == Init /\ [][NextPriority]_vars

\* the three decoders
NextDecoders == Daemon \/ Priority \/ OneShot

SpecDecoders == Init /\ [][NextDecoders]_vars

\* the log loops of the two decoders, one log at a time
NextClassifier ==
  \E k \in Keys : \E kind \in LogKinds : \E address \in TokenAddresses :
    ClassifyDaemon(k, kind, address) \/ ClassifyOneShot(k, kind, address)

SpecClassifier == Init /\ [][NextClassifier]_vars

\* the three decoders, with undecodable responses among the transactions
SpecDecodersGarbled ==
  InitFrom(EnvelopesWithGarbled) /\ [][NextDecoders]_vars

\* the three decoders, with a creation whose init code begins with a
\* listed selector among the transactions
SpecDecodersListed ==
  InitFrom(EnvelopesWithListed) /\ [][NextDecoders]_vars

\* the daemon alone, with calls whose arguments do not decode
SpecDaemonCut == InitFrom(EnvelopesWithCut) /\ [][NextDaemon]_vars

\* the response codec on its own
NextCodec ==
  \/ \E k \in Keys, data \in ResponseDatas : CodecDaemon(k, data)
  \/ \E k \in Keys, data \in ResponseDatas : CodecOneShot(k, data)

SpecCodec == Init /\ [][NextCodec]_vars

\* the daemon alone, with a malformed log payload among the responses
SpecDaemonPayload == InitFrom(EnvelopesWithBadPayload) /\ [][NextDaemon]_vars

\* the daemon alone, with a response of two logs among the responses
SpecDaemonLogs == InitFrom(EnvelopesWithTwoLogs) /\ [][NextDaemon]_vars

\* a run of the one-shot worker alone, from start to the end of main, with
\* more pending transactions than the LIMIT of its pending query
OneShotLimit == 1

NextWorker == OneShotQuery(OneShotLimit) \/ OneShotRow(OneShotLimit)

SpecWorker == InitFrom(EnvelopesWithTwoLogs) /\ [][NextWorker]_vars

\* the daemon and the priority decoder, with lost connections
NextConnections == Daemon \/ DaemonFault \/ Priority \/ PrioFault

SpecConnections == Init /\ [][NextConnections]_vars

\* the daemon and a shutdown signal
NextShutdown == Daemon \/ DaemonFault \/ DaemonShutdown

SpecShutdown == Init /\ [][NextShutdown]_vars

\* the detail endpoint, the priority decoder and the daemon; the decoder's
\* server finishes a request it has accepted
NextTrigger == (\E k \in Keys : GetTransactionDetail(k)) \/ Priority \/ Daemon

FairTrigger ==
  Init /\ [][NextTrigger]_vars /\ WF_vars(PrioInsert \/ PrioEnd)

\* the batch loop alone under weak fairness: main awaits processBatch and
\* the sleep that follows it in an endless loop, so a step of the loop that
\* is possible is eventually taken
FairDaemon == Init /\ [][Daemon]_vars /\ WF_vars(Daemon)

\* ------------------------------------------------------------- properties
TxRows(c, k) == {r \in c["tx"] : r.tx_id = k}

Mixed(b) ==
  /\ \E i \in 1..Len(b) : ~src[b[i]].ok
  /\ \E i \in 1..Len(b) : src[b[i]].ok

\* C1: when processBatch and decodeSingleTransaction process the same key
\* concurrently, the priority path ends without an error and the store
\* holds at most one row for the key. The two overlap when the call of the
\* priority path ends while a batch holding its key is open, or when its
\* INSERT found the row that the batch had committed since the call's
\* pending query.
C1_ConcurrentSameKey ==
  [][(/\ p.pc \in {"delete", "end"} /\ p'.pc = "idle"
      /\ p.key \in Range(d.batch)
      /\ \/ d.pc \in {"rows", "commit"}
         \/ (d.last = "committed" /\ p.pc = "delete" /\ p.w = EmptyTables))
     => (p'.res = "decoded" /\ Cardinality(TxRows(db', p.key)) <= 1)]_vars

\* C2: processBatch is atomic. No step of a batch before its COMMIT changes
\* the committed store; the COMMIT adds every row the batch wrote, one
\* transaction row for each key of the batch among them; a batch that fails
\* leaves the store as it was and all of its keys pending.
C2_BatchAtomic ==
  [][(d' # d) =>
       IF d.pc = "commit" /\ d'.last = "committed"
         THEN /\ db' = Overlay(db, d.w)
              /\ \A k \in Range(d.batch) : Has(db'["tx"], "tx", <<k>>)
       ELSE IF d.pc \in {"rows", "commit"} /\ d'.last = "failed"
         THEN db' = db /\ Range(d.batch) \subseteq Pending(db')
       ELSE db' = db]_vars

\* a batch failed after its first row had been written, and nothing of it
\* is in the store
C2_Witness ==
  /\ d.last = "failed" /\ d.pc = "backoff"
  /\ Len(d.batch) = 2 /\ d.i = 2
  /\ src[d.batch[1]].ok
  /\ db = EmptyTables

\* C3: a batch that mixes undecodable and decodable envelopes, and that no
\* fault outside the data interrupts, commits: one sentinel row (status -1)
\* for each undecodable key, one decoded row for each decodable key, and
\* none of its keys pending afterwards.
C3_MixedBatchCommits ==
  (/\ d.pc \in {"sleep", "backoff"} /\ d.last \in {"committed", "failed"}
   /\ d.err # "connection" /\ Mixed(d.batch))
  => /\ d.last = "committed"
     /\ \A k \in Range(d.batch) :
          /\ Cardinality(TxRows(db, k)) = 1
          /\ \A r \in TxRows(db, k) : (r.status = -1) <=> ~src[k].ok
          /\ k \notin Pending(db)

\* C4: under fair scheduling of the batch loop every decodable transaction
\* of the pending set eventually has a row and has left the pending set,
\* whatever is pending with it.
C4_DecodableEventuallyPersisted ==
  \A k \in Keys :
    (src[k].ok /\ k \in Pending(db)) ~> (k \notin Pending(db))

C6_DecodeOneAfterPersisted ==
  [][(/\ p.pc = "idle" /\ p'.reqs = p.reqs + 1
      /\ Has(db["tx"], "tx", <<p'.key>>))
     => (db' = db /\ p'.pc = "idle" /\ p'.res = "already_decoded"
         /\ p'.w = EmptyTables)]_vars

\* decode-one has answered for a key the batch loop had committed
C6_Witness ==
  /\ p.res = "already_decoded" /\ p.pc = "idle" /\ p.reqs = 1
  /\ d.last = "committed" /\ p.key \in Range(d.batch)
  /\ Has(db["tx"], "tx", <<p.key>>)

\* C7: decode-one on a pending, decodable key commits the insert of the row
\* together with the removal from the pending set: when the call has ended
\* the key has a row, is not pending, and the call has succeeded.
C7_DecodeOneCommits ==
  (/\ p.pc = "idle" /\ p.reqs > 0 /\ p.saw = "pending" /\ src[p.key].ok)
  => (/\ p.res = "decoded"
      /\ Has(db["tx"], "tx", <<p.key>>)
      /\ p.key \notin Pending(db))

\* C8: for a pending key decode-one writes the records the batch loop
\* writes: the same transaction row for some answer of the signature
\* lookup, and no row of another table that decode-one leaves out.
C8_SameRecords ==
  (p.pc \in {"insert", "delete"})
  => LET k   == p.key
         dec == DaemonDecodeTransaction(k, src[k])
         answers == IF NeedsLookup(dec)
                      THEN {Directory(Selector(dec.data)), NULL} ELSE {NULL}
     IN /\ \E sig \in answers :
             SingleDecodeTransaction(k, src[k]) = DaemonRecord(k, src[k], sig)
        /\ DaemonRowPrefix(k, src[k]) = <<>>

\* C9: reprocessing is idempotent: a step of the batch loop, of the one-shot
\* worker or of decode-one working on a key that has a row leaves that row
\* in place with every field unchanged.
C9_ReprocessingIdempotent ==
  [][\A k \in Keys :
       (/\ Has(db["tx"], "tx", <<k>>)
        /\ \/ (d' # d /\ k \in Range(d.batch))
           \/ (o' # o /\ k \in Range(o.batch))
           \/ (p' # p /\ p'.key = k))
       => TxRows(db', k) = TxRows(db, k)]_vars

\* the INSERT of decode-one has run on a key whose row another decoder had
\* committed in the meantime, and has inserted nothing
C9_Witness ==
  /\ p.pc = "delete" /\ p.w = EmptyTables
  /\ Has(db["tx"], "tx", <<p.key>>)

\* C10 as stated: no operation of the subsystem deletes or updates a
\* committed row of api.evm_transactions.
C10_NeverChangedByAny ==
  [][\A r \in db["tx"] : r \in db'["tx"]]_vars

\* C10: the batch loop, decode-one and the one-shot worker never delete or
\* update a committed row; a step of the backfill script either deletes
\* every row (backfillEvmDecoding) or changes nothing of a row but its
\* contract_address (backfillContracts).
C10_OnlyBackfillChanges ==
  [][/\ (f' = f) => \A r \in db["tx"] : r \in db'["tx"]
     /\ (f' # f) =>
          \/ db'["tx"] = {}
          \/ \A r \in db["tx"] : \E r2 \in db'["tx"] :
               r2 = [r EXCEPT !.contract_address = r2.contract_address]]_vars

\* backfillContracts has stamped the row the one-shot worker committed for
\* a deployment
C10_Witness ==
  /\ f.mode = "contracts-only" /\ f.i > 1
  /\ o.last = "committed"
  /\ \E r \in db["tx"] : r.to = NULL /\ r.contract_address # NULL
                          /\ r.gas_used = "88000"

C12_DecodeOneSentinel ==
  (/\ p.pc = "idle" /\ p.reqs > 0 /\ p.saw = "pending" /\ ~src[p.key].ok)
  => (/\ \E r \in TxRows(db, p.key) : r.status = -1
      /\ p.key \notin Pending(db))

\* C13: after a batch that was full (BATCH_SIZE rows) main calls
\* processBatch again without waiting; after an empty batch it waits
\* POLL_INTERVAL_MS.
C13_FullBatchNoWait ==
  [][/\ (d.pc = "commit" /\ d'.last = "committed"
         /\ Len(d.batch) = BATCH_SIZE) => d'.wait = 0
     /\ (d' # d /\ d'.last = "empty") => d'.wait = POLL_INTERVAL_MS]_vars

\* C14: when processBatch throws, main does not end: it waits twice
\* POLL_INTERVAL_MS, which is longer than the steady wait, and the next
\* call of processBatch is then possible.
C14_BackoffAfterFailure ==
  /\ [][(d.pc \in {"rows", "commit"} /\ d'.last = "failed")
        => (/\ d'.pc = "backoff"
            /\ d'.wait = 2 * POLL_INTERVAL_MS
            /\ d'.wait > SteadyWait)]_vars
  /\ [](d.pc = "backoff" => ENABLED DaemonPoll)

\* a batch has failed on a statement and main is in its backoff wait
C14_Witness ==
  /\ d.pc = "backoff" /\ d.last = "failed" /\ d.err = "not_null"
  /\ d.wait = 10000

\* the row of key k makes processBatch resolve a selector
LooksUp(k) ==
  /\ DaemonDecodeTransaction(k, src[k]) # NoDecode
  /\ NeedsLookup(DaemonDecodeTransaction(k, src[k]))

\* C15: at most one external lookup per selector in a process lifetime:
\* once a lookup for a selector has completed, found or failed, a later
\* resolution of the same selector is answered from the cache. Stated for
\* two rows of one batch: when an earlier row has resolved the selector of
\* the row being processed, the selector is in the cache.
C15_OneLookupPerSelector ==
  [][\A j \in 1..Len(d.batch) :
       (/\ d.pc = "rows" /\ j < d.i /\ d'.i = d.i + 1
        /\ LooksUp(d.batch[j]) /\ LooksUp(d.batch[d.i])
        /\ Selector(src[d.batch[j]].data) = Selector(src[d.batch[d.i]].data))
       => Selector(src[d.batch[d.i]].data) \in d.cache]_vars

\* C16: a failed signature lookup does not abort the batch: the row step
\* succeeds, the row it writes has function_name, function_signature and
\* decoded_args NULL when the lookup gave no signature, and the COMMIT of
\* the batch stores that row.
C16_FailedLookupPersists ==
  [][/\ (/\ d.pc = "rows" /\ d' # d /\ d'.err # "connection"
         /\ LooksUp(d.batch[d.i]))
        => /\ d'.last # "failed"
           /\ \E r \in TxRows(d'.w, d.batch[d.i]) :
                /\ r.function_signature
                     \in {NULL, Directory(Selector(r.data))}
                /\ (r.function_signature = NULL)
                     => (r.function_name = NULL /\ r.decoded_args = NULL)
     /\ (d.pc = "commit" /\ d'.last = "committed")
        => \A k \in Range(d.batch) : TxRows(db', k) = TxRows(d.w, k)]_vars

\* a batch has committed the row of a call whose lookup had failed
C16_Witness ==
  /\ d.last = "committed"
  /\ \E k \in Range(d.batch) :
       /\ LooksUp(k)
       /\ \E r \in TxRows(db, k) :
            r.function_signature = NULL /\ r.function_name = NULL

TokensAt(c, address) == {r \in c["tokens"] : r.address = address}

TransferStatements(stmts) ==
  {stmts[i].row : i \in {j \in 1..Len(stmts) : stmts[j].tab = "transfers"}}

TokenStatements(stmts) ==
  {stmts[i].row : i \in {j \in 1..Len(stmts) : stmts[j].tab = "tokens"}}

\* C18: the token registry has at most one row per address, and no write of
\* either decoder turns a row of type ERC721 or ERC1155 into ERC20 or
\* removes it.
C18_TokenTypeNeverDowngraded ==
  [][/\ \A a \in TokenAddresses : Cardinality(TokensAt(db', a)) <= 1
     /\ \A r \in db["tokens"] :
          r.type \in {"ERC721", "ERC1155"}
          => /\ TokensAt(db', r.address) # {}
             /\ \A r2 \in TokensAt(db', r.address) : r2.type # "ERC20"]_vars

\* an ERC-20 Transfer log has been processed for an address whose token is
\* registered as ERC721
C18_Witness ==
  /\ lc.by # "none"
  /\ Len(lc.log.topics) = 3 /\ lc.log.topics[1] = "TRANSFER"
  /\ \E r \in TokensAt(db, lc.log.address) : r.type = "ERC721"

DeploymentRow(r) == r.to = NULL /\ r.status = 1 /\ r.from \notin {NULL, ""}

DerivedAddress(r) == toLowerCase(getCreateAddress(r.from, r.nonce))

\* the execution of the transaction did not fail
ExecutionSucceeded(env) == ~(env.resp.kind = "ok" /\ env.resp.vmError)

\* C20: contract_address is stamped and a Contract row is written only for
\* a transaction without recipient, with a known sender, whose execution
\* succeeded; every such transaction has exactly one Contract row, keyed by
\* the address derived from its sender and nonce, whose creator is the
\* lowercased sender.
C20_ContractOnlyForDeployment ==
  /\ \A r \in db["tx"] :
       /\ (r.contract_address # NULL)
            => (DeploymentRow(r) /\ ExecutionSucceeded(src[r.tx_id]))
       /\ (DeploymentRow(r) /\ ExecutionSucceeded(src[r.tx_id])) =>
            /\ r.contract_address = DerivedAddress(r)
            /\ Cardinality({c \in db["contracts"] :
                              c.address = DerivedAddress(r)}) = 1
            /\ \A c \in db["contracts"] :
                 (c.address = DerivedAddress(r))
                 => c.creator = toLowerCase(r.from)
  /\ \A c \in db["contracts"] :
       \E r \in db["tx"] :
         /\ DeploymentRow(r) /\ ExecutionSucceeded(src[r.tx_id])
         /\ c.address = DerivedAddress(r)

\* the Contract rows a statement of the batch session sees: the committed
\* rows overlaid with the rows the open transaction wrote
ContractsSeen(c, w) == Overlay(c, w)["contracts"]

\* C21: the Contract registry holds one row per address, and a write for an
\* address that already has a Contract row keeps that row's creator and
\* creation transaction.
C21_FirstWriterWins ==
  [][ /\ \A a, b \in ContractsSeen(db', d'.w) :
           (a.address = b.address) => (a = b)
      /\ \A a \in ContractsSeen(db, d.w) :
           \A b \in ContractsSeen(db', d'.w) :
             (a.address = b.address)
             => (a.creator = b.creator /\ a.creation_tx = b.creation_tx) ]_vars

\* the stored response is absent or is not decodable
ResponseMissing(env) == env.resp.kind # "ok"

LogsOf(c, k) == {l \in c["logs"] : l.tx_id = k}

TransfersOf(c, k) == {t \in c["transfers"] : t.tx_id = k}

\* C22: a decodable transaction whose response is absent or undecodable is
\* persisted all the same: its row step never raises in either decoder, and
\* its committed row carries the base fields of the envelope, status 1, the
\* gas used of the pending entry, and has no LogEntry or TokenTransfer rows.
C22_MissingResponsePersists ==
  /\ [](\A r \in db["tx"] :
          LET env == src[r.tx_id]
          IN (r.status # -1 /\ ResponseMissing(env)) =>
               /\ r.hash = keccak256(r.tx_id)
               /\ r.from = env.from /\ r.to = env.to
               /\ r.nonce = env.nonce /\ r.data = env.data
               /\ r.status = 1
               /\ r.gas_used = env.evGas
               /\ LogsOf(db, r.tx_id) = {}
               /\ TransfersOf(db, r.tx_id) = {})
  /\ [][ /\ (/\ d.pc = "rows"
             /\ src[d.batch[d.i]].ok
             /\ ResponseMissing(src[d.batch[d.i]])
             /\ d'.pc = "backoff")
            => d'.err = "connection"
         /\ (/\ o.pc = "rows"
             /\ o' # o
             /\ src[o.batch[o.i]].ok
             /\ ResponseMissing(src[o.batch[o.i]]))
            => o'.last = "committed" ]_vars

C22_Witness ==
  /\ \E r \in db["tx"] : src[r.tx_id] = EnvGarbled
  /\ \E r \in db["tx"] : src[r.tx_id] = EnvPlain
  /\ d.last = "committed"

C24_SignalLeadsToDecodeOne ==
  \A k \in Keys : (k \in nt) ~> (p.reqs > 0 /\ p.key = k)

\* the keys of the daemon's current batch are all committed or all pending
BatchWhole ==
  LET ks == Range(d.batch)
  IN {k \in ks : TxRows(db, k) # {}} \in {{}, ks}

C26_NameKeptWhenArgsFail ==
  [][(/\ d.pc = "rows" /\ d' # d /\ d'.err # "connection"
      /\ src[d.batch[d.i]] = EnvCallCut
      /\ "0xa9059cbb" \in d'.cache)
     => /\ d'.last # "failed"
        /\ \E r \in TxRows(d'.w, d.batch[d.i]) :
             /\ r.function_signature = "transfer(address,uint256)"
             /\ r.function_name = "transfer"
             /\ r.decoded_args = NULL]_vars

\* a batch has committed such a row
C26_Witness ==
  /\ d.last = "committed"
  /\ \E r \in db["tx"] :
       /\ src[r.tx_id] = EnvCallCut
       /\ r.function_name = "transfer"
       /\ r.decoded_args = NULL

\* statement i of a list inserts a TokenTransfer row after the statement
\* that inserts its LogEntry row, and when the Token row of its token
\* address exists in c or was inserted by an earlier statement of the list
ReferencesReady(c, stmts, i) ==
  LET st == stmts[i]
  IN /\ \E j \in 1..(i - 1) :
          /\ stmts[j].tab = "logs"
          /\ stmts[j].row.tx_id = st.row.tx_id
          /\ stmts[j].row.log_index = st.row.log_index
     /\ \/ TokensAt(c, st.row.token_address) # {}
        \/ \E j \in 1..(i - 1) :
             /\ stmts[j].tab = "tokens"
             /\ stmts[j].row.address = st.row.token_address

\* C27 (the TokenTransfer part, on the statements of the log loop): every
\* statement that writes a TokenTransfer row is issued when its LogEntry row
\* and the Token row of its token address already exist.
C27_ReferencesInOrder ==
  [][(lc' # lc) =>
       \A i \in 1..Len(lc'.stmts) :
         (lc'.stmts[i].tab = "transfers")
         => ReferencesReady(db, lc'.stmts, i)]_vars

Matching(q) == {i \in 1..Len(q) : q[i].typeUrl = EvmTypeUrl}

FirstMatching(q) == CHOOSE i \in Matching(q) : \A j \in Matching(q) : i <= j

\* C29: the codec returns the decoding of the first nested response of the
\* EVM type, whatever precedes it; response data that is no envelope, or
\* that holds no response of that type, gives no result, and the record
\* then keeps status 1 and the gas used of the pending entry.
C29_FirstMatchingResponse ==
  (rc.by # "none") =>
    LET q == rc.input.msgResponses
    IN IF rc.input.kind = "ok" /\ Matching(q) # {}
         THEN rc.result = DecodeEvmResponse(q[FirstMatching(q)].value)
         ELSE /\ rc.result = NoResult
              /\ rc.rec.status = 1
              /\ rc.rec.gas_used = src[rc.key].evGas

\* C30: after the log loop of the batch has handled a log that the
\* classifier takes for a transfer (ERC-20, ERC-721 or ERC-1155, by
\* TransferSingle or TransferBatch), the registry has a Token row for the
\* address that emitted the log.
C30_ClassifiedLogHasToken ==
  (lc.by = "daemon" /\ detectTokenType(lc.log) # NULL)
  => TokensAt(db, lc.log.address) # {}

\* C31: a batch that holds a transaction whose TransferSingle log has
\* undecodable data, and that nothing else fails, commits with the row of
\* that transaction and the LogEntry row of that log, and without a
\* TokenTransfer row for it.
C31_MalformedPayloadKeepsLog ==
  (d.last = "committed") =>
    \A k \in Range(d.batch) :
      (src[k] = EnvSingleBad) =>
        /\ TxRows(db, k) # {}
        /\ \E l \in LogsOf(db, k) : l.data = SingleLogBadData.data
        /\ TransfersOf(db, k) = {}

\* C32: after a committed batch, a transaction of the batch whose stored
\* execution result has n logs has n LogEntry rows, one for each log of the
\* result, under the index the log carries or, when it carries none, under
\* its position in the list.
C32_EveryLogStored ==
  (d.last = "committed") =>
    \A k \in Range(d.batch) :
      (src[k].ok /\ src[k].resp.kind = "ok") =>
        /\ Cardinality(LogsOf(db, k)) = Len(src[k].resp.logs)
        /\ \A j \in 1..Len(src[k].resp.logs) :
             \E l \in LogsOf(db, k) :
               l.log_index = LogIndex(src[k].resp.logs[j], j - 1)

\* the log loop of processBatch handles an Approval log in this step
ApprovalStep ==
  /\ lc'.by = "daemon"
  /\ lc'.log.topics # <<>> /\ lc'.log.topics[1] = "APPROVAL"
  /\ Len(lc'.log.topics) >= 3

\* the types registered for an address
TypesAt(c, address) == {r.type : r \in TokensAt(c, address)}

C34_RunDecodesEveryDecodable ==
  (o.pc = "done") => \A k \in Keys : src[k].ok => TxRows(db, k) # {}

\* the order ERC20 < ERC721 < ERC1155, with 0 for no row
TypeRank(type) ==
  CASE type = "ERC20" -> 1 [] type = "ERC721" -> 2 [] type = "ERC1155" -> 3
    [] OTHER -> 0

RankAt(c, address) ==
  IF TokensAt(c, address) = {} THEN 0
  ELSE CHOOSE n \in 0..3 :
         /\ \E r \in TokensAt(c, address) : TypeRank(r.type) = n
         /\ \A r \in TokensAt(c, address) : TypeRank(r.type) <= n

\* the type a log stands for: Transfer with 3 topics and Approval ERC20,
\* Transfer with 4 topics ERC721, TransferSingle ERC1155
ObservedRank(log) ==
  IF log.topics = <<>> THEN 0
  ELSE CASE log.topics[1] = "TRANSFER" /\ Len(log.topics) = 3 -> 1
         [] log.topics[1] = "APPROVAL" /\ Len(log.topics) >= 3 -> 1
         [] log.topics[1] = "TRANSFER" /\ Len(log.topics) = 4 -> 2
         [] log.topics[1] = "TRANSFER_SINGLE" /\ Len(log.topics) >= 4 -> 3
         [] OTHER -> 0

Stronger(a, b) == IF a < b THEN b ELSE a

C36_SentinelHashesDistinct ==
  (/\ d.pc \in {"sleep", "backoff"} /\ d.last \in {"committed", "failed"}
   /\ d.err # "connection"
   /\ Len(d.batch) = 2 /\ \A k \in Range(d.batch) : ~src[k].ok)
  => /\ SentinelHash(d.batch[1]) # SentinelHash(d.batch[2])
     /\ \A k \in Range(d.batch) :
          \E r \in TxRows(db, k) :
            r.status = -1 /\ r.hash = SentinelHash(k)

\* C37: every committed DecodedTransaction row without recipient has no
\* function name and no function signature, and every row with a contract
\* address has no recipient.
C37_FunctionOrCreation ==
  \A r \in db["tx"] :
    /\ (r.to = NULL) => (r.function_name = NULL /\ r.function_signature = NULL)
    /\ (r.contract_address # NULL) => (r.to = NULL)

\* C38: a step of decodeSingleTransaction in a call that does not end with
\* the success reply changes no table, and the keys of the pending set are
\* the same after it as before: this covers the reply for an unknown key,
\* for an undecodable envelope and for an error raised by a statement of
\* the write.
C38_FailureLeavesStore ==
  [][(p' # p /\ p'.res \in {"running", "not_found", "decode_failed", "error"})
     => /\ db' = db
        /\ Pending(db') = Pending(db)]_vars

\* decode-one has inserted the row of a pending key in its transaction and
\* has then reported an error
C38_Witness ==
  /\ p.pc = "idle" /\ p.reqs > 0 /\ p.res = "error" /\ p.saw = "pending"
  /\ src[p.key].ok
  /\ TxRows(db, p.key) = {}

\* C39: a call of processBatch or of decodeSingleTransaction holds one
\* connection while it runs; when it has returned or thrown, on whatever
\* path, it has released that connection exactly once, holds none, and has
\* no transaction open.
C39_ConnectionReleasedOnce ==
  /\ d.cx.held \in {0, 1} /\ p.cx.held \in {0, 1}
  /\ (d.pc \in {"rows", "commit"}) => (d.cx = [held |-> 1, released |-> 0])
  /\ (d.pc \in {"sleep", "backoff"})
       => (/\ d.cx = [held |-> 0, released |-> 1]
           /\ ~d.inTxn /\ d.w = EmptyTables)
  /\ (p.pc # "idle") => (p.cx = [held |-> 1, released |-> 0])
  /\ (p.pc = "idle" /\ p.reqs > 0)
       => (/\ p.cx = [held |-> 0, released |-> 1]
           /\ ~p.failed /\ p.w = EmptyTables)

\* processBatch has thrown after its connection was lost in an open
\* transaction, and decode-one has rejected the same way
C39_Witness ==
  /\ d.pc = "backoff" /\ d.err = "connection"
  /\ p.pc = "idle" /\ p.res = "thrown"

====
